---- MODULE Spec2Model ----
(***************************************************************************)
(* The publish:azure:pull-request scaffolder action                        *)
(* (actions/devopsPullRequest.ts): one handler that pushes the files of a  *)
(* working directory to a branch of an Azure DevOps repository and opens   *)
(* or reuses a pull request, together with the remote repository it talks  *)
(* to.  The handler is split at its awaits: between two awaited remote     *)
(* calls the remote may change.                                            *)
(*                                                                         *)
(* Strings whose characters matter (names that end up in URLs, file        *)
(* contents) are sequences of one-character strings or of bytes; paths and *)
(* ref names are sequences of segments.                                    *)
(***************************************************************************)
EXTENDS Integers, Sequences, FiniteSets, TLC

\* ------------------------------------------------------------------ bounds

\* Invocations of the handler in one behaviour.
MaxInvocations == 2
\* Commits up to which someone else may still push (the remote starts with 2).
MaxCommits == 3
\* Entries of a directory listing in the pure-function specification.
MaxEntries == 2

\* ------------------------------------------------------- program constants

\* '0000000000000000000000000000000000000000': the old-object-id of a new ref.
ZeroObjectId == 0
\* The identifier a dry run reports.
MockedPullRequestId == 123

None == "none"

\* ----------------------------------------------------------------- strings

RECURSIVE Flatten(_)
\* The concatenation of a sequence of character sequences (a template string).
Flatten(parts) ==
    IF parts = <<>> THEN <<>> ELSE Head(parts) \o Flatten(Tail(parts))

HexDigit == <<"0","1","2","3","4","5","6","7","8","9","A","B","C","D","E","F">>

\* Number.prototype.toString of a non-negative integer, as its decimal digits.
RECURSIVE NumberToString(_)
NumberToString(n) ==
    IF n < 10 THEN <<HexDigit[n + 1]>>
    ELSE NumberToString(n \div 10) \o <<HexDigit[(n % 10) + 1]>>

\* The characters encodeURIComponent leaves alone, among those the model uses.
Unreserved ==
    {"a","b","c","d","e","g","i","j","m","o","p","r","s","t","u","v","w","y","z",
     "h","l","n","f","k","q","x",
     "0","1","2","3","4","5","6","7","8","9",
     "-","_",".","!","~","*","'","(",")"}

\* The ASCII code of the reserved characters the model uses.
CharCode(c) ==
    CASE c = " " -> 32
      [] c = "#" -> 35
      [] c = "%" -> 37
      [] c = "&" -> 38
      [] c = "/" -> 47
      [] c = ":" -> 58
      [] c = "?" -> 63

PercentEncodeChar(c) ==
    IF c \in Unreserved THEN <<c>>
    ELSE <<"%", HexDigit[(CharCode(c) \div 16) + 1], HexDigit[(CharCode(c) % 16) + 1]>>

RECURSIVE EncodeURIComponent(_)
\* encodeURIComponent on a string of the model's alphabet.
EncodeURIComponent(s) ==
    IF s = <<>> THEN <<>>
    ELSE PercentEncodeChar(Head(s)) \o EncodeURIComponent(Tail(s))

\* ------------------------------------------------------------------ base64

Base64Alphabet ==
    <<"A","B","C","D","E","F","G","H","I","J","K","L","M","N","O","P",
      "Q","R","S","T","U","V","W","X","Y","Z","a","b","c","d","e","f",
      "g","h","i","j","k","l","m","n","o","p","q","r","s","t","u","v",
      "w","x","y","z","0","1","2","3","4","5","6","7","8","9","+","/">>

B64(i) == Base64Alphabet[i + 1]

RECURSIVE Base64Encode(_)
\* Buffer.prototype.toString('base64'): three bytes to four characters, the
\* last group padded with "=".
Base64Encode(bytes) ==
    IF Len(bytes) = 0 THEN <<>>
    ELSE IF Len(bytes) = 1 THEN
        <<B64(bytes[1] \div 4), B64((bytes[1] % 4) * 16), "=", "=">>
    ELSE IF Len(bytes) = 2 THEN
        <<B64(bytes[1] \div 4),
          B64((bytes[1] % 4) * 16 + bytes[2] \div 16),
          B64((bytes[2] % 16) * 4), "=">>
    ELSE
        <<B64(bytes[1] \div 4),
          B64((bytes[1] % 4) * 16 + bytes[2] \div 16),
          B64((bytes[2] % 16) * 4 + bytes[3] \div 64),
          B64(bytes[3] % 64)>>
        \o Base64Encode(SubSeq(bytes, 4, Len(bytes)))

\* ------------------------------------------------------------------- paths

\* A path is [abs |-> BOOLEAN, segs |-> its segments].
RECURSIVE CommonPrefixLen(_, _)
CommonPrefixLen(a, b) ==
    IF a = <<>> \/ b = <<>> \/ Head(a) # Head(b) THEN 0
    ELSE 1 + CommonPrefixLen(Tail(a), Tail(b))

RECURSIVE DotDots(_)
DotDots(n) == IF n = 0 THEN <<>> ELSE <<"..">> \o DotDots(n - 1)

\* path.relative(from, to) of two absolute paths, as segments.
PathRelative(from, to) ==
    LET k == CommonPrefixLen(from, to)
    IN  DotDots(Len(from) - k) \o SubSeq(to, k + 1, Len(to))

RECURSIVE NormalizeFrom(_, _)
\* The segments of an absolute path with "." and ".." resolved; ".." at the
\* root stays at the root.
NormalizeFrom(done, rest) ==
    IF rest = <<>> THEN done
    ELSE IF Head(rest) = "." THEN NormalizeFrom(done, Tail(rest))
    ELSE IF Head(rest) = ".." THEN
        NormalizeFrom(IF done = <<>> THEN <<>> ELSE SubSeq(done, 1, Len(done) - 1),
                      Tail(rest))
    ELSE NormalizeFrom(Append(done, Head(rest)), Tail(rest))

\* path.posix.join('/', a, b): an absolute, normalized path.
PosixJoinFromRoot(a, b) == NormalizeFrom(<<>>, a \o b)

\* path.basename.
Basename(segs) == IF segs = <<>> THEN "" ELSE segs[Len(segs)]

\* resolveSafeChildPath(workspacePath, sourcePath) for a sourcePath inside it.
FileRoot(workspacePath, sourcePath) ==
    IF sourcePath # <<>> THEN workspacePath \o sourcePath ELSE workspacePath

\* --------------------------------------------------------- generateGitChanges

\* The .map callback: one change per directory entry.
ChangeOf(file, fileRoot, targetPath) ==
    LET relativePath == IF file.path.abs
                        THEN PathRelative(fileRoot, file.path.segs)
                        ELSE file.path.segs
    IN  [changeType |-> "add",
         item       |-> [path |-> PosixJoinFromRoot(targetPath, relativePath)],
         newContent |-> [content     |-> Base64Encode(file.content),
                         contentType |-> "base64encoded"]]

\* The .filter callback: a change with content.
IsValidChange(change) == change.newContent.content # <<>>

RECURSIVE MapChanges(_, _, _)
MapChanges(directoryContents, fileRoot, targetPath) ==
    IF directoryContents = <<>> THEN <<>>
    ELSE <<ChangeOf(Head(directoryContents), fileRoot, targetPath)>>
         \o MapChanges(Tail(directoryContents), fileRoot, targetPath)

\* generateGitChanges without its filter.
GenerateGitChangesUnfiltered(directoryContents, fileRoot, targetPath) ==
    MapChanges(directoryContents, fileRoot, targetPath)

GenerateGitChanges(directoryContents, fileRoot, targetPath) ==
    SelectSeq(MapChanges(directoryContents, fileRoot, targetPath), IsValidChange)

\* ------------------------------------------------------------------- URLs

Slash == <<"/">>
HttpsPrefix == <<"h","t","t","p","s",":","/","/">>
GitSegment == <<"_","g","i","t">>
PullRequestSegment == <<"p","u","l","l","r","e","q","u","e","s","t">>
MockedHost == <<"m","o","c","k","e","d","-","u","r","l">>
DefaultHost == <<"d","e","v",".","a","z","u","r","e",".","c","o","m">>

\* `https://${host}/${encodeURIComponent(organization)}`
BaseUrl(host, organization) ==
    Flatten(<<HttpsPrefix, host, Slash, EncodeURIComponent(organization)>>)

\* getAzureDevOpsPullRequestURL (utils/azure-devops-utils).
GetAzureDevOpsPullRequestURL(baseUrl, project, repo, pullRequestId) ==
    Flatten(<<baseUrl, Slash, EncodeURIComponent(project), Slash, GitSegment, Slash,
              EncodeURIComponent(repo), Slash, PullRequestSegment, Slash,
              NumberToString(pullRequestId)>>)

\* `https://mocked-url/${organization}/${project}/${repo}/pullrequest/123`
MockedUrl(organization, project, repo) ==
    Flatten(<<HttpsPrefix, MockedHost, Slash, organization, Slash, project, Slash,
              repo, Slash, PullRequestSegment, Slash, <<"1", "2", "3">>>>)

\* `refs/heads/${branchName}`
RefsHeads(branchName) == <<"refs", "heads">> \o branchName

\* defaultBranch.replace('refs/heads/', '')
StripRefsHeads(ref) ==
    IF Len(ref) >= 2 /\ SubSeq(ref, 1, 2) = <<"refs", "heads">>
    THEN SubSeq(ref, 3, Len(ref)) ELSE ref

\* ------------------------------------------------------------------- state

VARIABLES
    \* The remote (Azure DevOps).
    repository,       \* the repository getRepository finds, if any
    branches,         \* branch name -> commit id (ZeroObjectId: no such branch)
    commitCount,      \* commits made so far; the next commit is commitCount + 1
    pullRequests,     \* the repository's pull requests, oldest first
    \* The handler.
    pc,               \* where the handler stands (the await it is at)
    invocation,       \* invocations started so far
    ctx,              \* ctx.input and ctx.isDryRun
    client,           \* webApi / gitApi
    resolvedTargetBranchName,
    sourceBranchDoesNotExist,
    refUpdate,
    directoryContents,
    changes,
    push,
    outputs,          \* what ctx.output was given
    error,            \* what the handler threw
    \* What the invocation did, for the properties.
    calls,            \* the remote operations called, in order
    refUpdatesSent,   \* the ref updates given to updateRefs
    pushesSent,       \* the pushes given to createPush
    trace             \* what the remote held when it was asked

remoteVars == <<repository, branches, commitCount, pullRequests>>
localVars == <<resolvedTargetBranchName, sourceBranchDoesNotExist, refUpdate,
               directoryContents, changes, push>>
logVars == <<calls, refUpdatesSent, pushesSent, trace>>
vars == <<repository, branches, commitCount, pullRequests, pc, invocation, ctx,
          client, resolvedTargetBranchName, sourceBranchDoesNotExist, refUpdate,
          directoryContents, changes, push, outputs, error, calls,
          refUpdatesSent, pushesSent, trace>>

\* ------------------------------------------------------------------ inputs

Main == <<"main">>
Dev == <<"dev">>
Feature == <<"feature">>
WorkspacePath == <<"ws">>

Organization == <<"m","y"," ","o">>
Projects == {<<"a"," ","b">>}
Repo == <<"r","-","1">>

Inputs ==
    [host : {DefaultHost},
     organization : {Organization},
     project : Projects,
     repo : {Repo},
     sourceBranchName : {Feature},
     targetBranchName : {<<>>, Dev},
     title : {"t"},
     description : {"d"},
     draft : {FALSE},
     sourcePath : {<<>>},
     targetPath : {<<>>},
     token : {None, "tok"},
     reviewers : {<<"alice">>},
     commitMessage : {"", "msg"},
     createSourceBranch : BOOLEAN]

File(abs, segs, content) == [path |-> [abs |-> abs, segs |-> segs], content |-> content]

\* What serializeDirectoryContents may return for the working directory.
DirectoryListings ==
    { <<>>,
      <<File(FALSE, <<"sub", "e.txt">>, <<>>)>>,
      <<File(FALSE, <<"a.txt">>, <<77>>)>>,
      <<File(FALSE, <<"sub", "e.txt">>, <<>>), File(TRUE, <<"ws", "b.md">>, <<0, 255>>)>> }

\* What credentialProvider.getCredentials may resolve to.
NoCredentials == [type |-> "none", token |-> None]
CredentialResults ==
    {NoCredentials, [type |-> "pat", token |-> "cfg"], [type |-> "bearer", token |-> "cfg"]}

NoOutputs == [set |-> FALSE, pullRequestUrl |-> <<>>, pullRequestId |-> 0]
NoError == [kind |-> "none", message |-> ""]
NoClient == [constructed |-> FALSE, auth |-> "none", gitApi |-> FALSE]
NoRefUpdate == [name |-> <<>>, oldObjectId |-> ZeroObjectId, newObjectId |-> ZeroObjectId]
NoPush == [refUpdates |-> <<>>, commits |-> <<>>]
NoBranches == [b \in {} |-> ZeroObjectId]
\* probe: what the source-branch lookup answered, and whether the branch was
\* there; atBaseFetch, atPushFetch: the remote's branches when the handler
\* fetched a latest commit; created: updateRefs made the branch; matches: the
\* active pull requests between the two refs when the handler searched.
NoTrace ==
    [probe |-> "none", sourceExisted |-> FALSE,
     baseFetched |-> FALSE, atBaseFetch |-> NoBranches, created |-> FALSE,
     pushFetched |-> FALSE, atPushFetch |-> NoBranches,
     searched |-> FALSE, matches |-> <<>>]

\* ------------------------------------------------------------------ remote

\* The commit a branch points at; ZeroObjectId when there is no such branch.
BranchCommit(name) == IF name \in DOMAIN branches THEN branches[name] ELSE ZeroObjectId

\* What gitApi.getBranch may answer: the call fails, or tells the truth; a
\* branch that does not exist is a failure or an empty answer.
GetBranchResponses(name) ==
    {[kind |-> "throw", commitId |-> ZeroObjectId]}
    \cup (IF BranchCommit(name) = ZeroObjectId
          THEN {[kind |-> "undefined", commitId |-> ZeroObjectId]}
          ELSE {[kind |-> "branch", commitId |-> BranchCommit(name)]})

\* The remote's handling of one ref update: it is applied when the ref is
\* where the update says it is (ZeroObjectId: the ref is new).
ApplyRefUpdate(update, newObjectId) ==
    LET name == StripRefsHeads(update.name)
    IN  IF BranchCommit(name) = update.oldObjectId
        THEN [b \in DOMAIN branches \cup {name} |->
                 IF b = name THEN newObjectId ELSE branches[b]]
        ELSE branches

RefUpdateAccepted(update) == BranchCommit(StripRefsHeads(update.name)) = update.oldObjectId

\* getPullRequests with its search criteria: the pull requests of that status
\* between those two refs.
SearchPullRequests(criteria) ==
    SelectSeq(pullRequests,
              LAMBDA pr : /\ pr.sourceRefName = criteria.sourceRefName
                          /\ pr.targetRefName = criteria.targetRefName
                          /\ pr.status = criteria.status)

\* ----------------------------------------------------------------- handler

\* !credentials && !token
CredentialsMissing(credentials, token) ==
    credentials.type = "none" /\ token = None

\* token || credentials?.type === 'pat' ? PAT handler : bearer handler
AuthHandler(credentials, token) ==
    IF token # None \/ credentials.type = "pat" THEN "pat" ELSE "bearer"

\* performDryRun's two outputs.
DryRunOutputs(input) ==
    [set |-> TRUE,
     pullRequestUrl |-> MockedUrl(input.organization, input.project, input.repo),
     pullRequestId |-> MockedPullRequestId]

\* The target branch: the one given, or the repository's default branch.
\* [ok |-> FALSE] when neither is there.
ResolveTargetBranch(targetBranchName, repo) ==
    IF targetBranchName # <<>> THEN [ok |-> TRUE, name |-> targetBranchName]
    ELSE IF repo.defaultBranch = <<>> THEN [ok |-> FALSE, name |-> <<>>]
    ELSE [ok |-> TRUE, name |-> StripRefsHeads(repo.defaultBranch)]

\* getLatestCommit's check of what getBranch answered.
BranchRefMissing(branchRef) ==
    branchRef.kind = "undefined" \/ branchRef.commitId = ZeroObjectId

\* The ref update with the latest commit as the old object id too.
NewBranchRefUpdateFromCommit(sourceBranchName, latestCommit) ==
    [name |-> <<"refs", "heads">> \o sourceBranchName,
     oldObjectId |-> latestCommit,
     newObjectId |-> latestCommit]

\* The ref update that creates the source branch.
NewBranchRefUpdate(sourceBranchName, latestCommit) ==
    [name |-> RefsHeads(sourceBranchName),
     oldObjectId |-> ZeroObjectId,
     newObjectId |-> latestCommit]

\* The branch whose latest commit becomes the push's old-object-id.
PushBaseBranchAlwaysSource(doesNotExist, targetBranch, sourceBranch) == sourceBranch

PushBaseBranch(doesNotExist, targetBranch, sourceBranch) ==
    IF doesNotExist THEN targetBranch ELSE sourceBranch

RECURSIVE Basenames(_)
\* directoryContents.map(file => path.basename(file.path)), joined with ', '.
Basenames(files) ==
    IF files = <<>> THEN <<>>
    ELSE <<Basename(Head(files).path.segs)>> \o Basenames(Tail(files))

AutoCommitText == "Automated commit from Backstage scaffolder. Added files: "

\* commitMessage || `Automated commit ... Added files: ${...}`
CommitComment(commitMessage, files) ==
    IF commitMessage # "" THEN [text |-> commitMessage, files |-> <<>>]
    ELSE [text |-> AutoCommitText, files |-> Basenames(files)]

BuildPush(sourceBranchName, oldObjectId, commitMessage, files, fileChanges) ==
    [refUpdates |-> <<[name |-> RefsHeads(sourceBranchName), oldObjectId |-> oldObjectId]>>,
     commits |-> <<[comment |-> CommitComment(commitMessage, files),
                    changes |-> fileChanges]>>]

\* !changes || changes.length === 0
NoChangesNever(fileChanges) == FALSE

NoChanges(fileChanges) == Len(fileChanges) = 0

\* The search criteria given to getPullRequests.
SearchCriteria(sourceBranchName, targetBranchName) ==
    [sourceRefName |-> RefsHeads(sourceBranchName),
     targetRefName |-> RefsHeads(targetBranchName),
     status |-> "active"]

\* existingPullRequests.length > 0
HasExistingNever(existing) == FALSE

HasExisting(existing) == Len(existing) > 0

\* The pull request given to createPullRequest.
NewPullRequest(input, targetBranchName) ==
    [sourceRefName |-> RefsHeads(input.sourceBranchName),
     targetRefName |-> RefsHeads(targetBranchName),
     title |-> input.title,
     description |-> input.description,
     isDraft |-> input.draft,
     reviewers |-> [i \in DOMAIN input.reviewers |-> [uniqueName |-> input.reviewers[i]]],
     labels |-> <<[name |-> "devhub-generated"]>>]

\* The two outputs with project and repo given in the wrong order.
PullRequestOutputsSwapped(input, pullRequestId) ==
    [set |-> TRUE,
     pullRequestUrl |-> GetAzureDevOpsPullRequestURL(
         BaseUrl(input.host, input.organization), input.repo, input.project,
         pullRequestId),
     pullRequestId |-> pullRequestId]

\* The two outputs of a created or reused pull request.
PullRequestOutputs(input, pullRequestId) ==
    [set |-> TRUE,
     pullRequestUrl |-> GetAzureDevOpsPullRequestURL(
         BaseUrl(input.host, input.organization), input.project, input.repo,
         pullRequestId),
     pullRequestId |-> pullRequestId]

Throw(kind, message) ==
    /\ pc' = "failed"
    /\ error' = [kind |-> kind, message |-> message]

\* A remote call that fails: the client's error propagates.
RemoteFailure == Throw("Error", "remote call failed")

\* The ids of the remote's active pull requests from one branch to another,
\* oldest first: what the handler's search is measured against.
ActivePullRequestIds(sourceBranch, targetBranch) ==
    LET hits == SelectSeq(pullRequests,
                          LAMBDA pr : /\ pr.status = "active"
                                      /\ pr.sourceRefName = <<"refs", "heads">> \o sourceBranch
                                      /\ pr.targetRefName = <<"refs", "heads">> \o targetBranch)
    IN  [i \in DOMAIN hits |-> hits[i].pullRequestId]

\* ----------------------------------------------------------------- actions

Called(op) == calls' = Append(calls, op)

\* What the handler holds between invocations: nothing.
NoContext == [input |-> CHOOSE input \in Inputs : TRUE, isDryRun |-> FALSE]

\* The host calls the handler.
Invoke ==
    /\ pc = "idle"
    /\ invocation < MaxInvocations
    /\ \E input \in Inputs, isDryRun \in BOOLEAN :
           ctx' = [input |-> input, isDryRun |-> isDryRun]
    /\ invocation' = invocation + 1
    /\ pc' = "getCredentials"
    /\ UNCHANGED <<remoteVars, localVars, logVars, client, outputs, error>>

\* The handler's promise is settled and the host has taken its outputs or
\* its error: nothing of the invocation is kept.
Return ==
    /\ pc \in {"done", "failed"}
    /\ pc' = "idle"
    /\ ctx' = NoContext
    /\ client' = NoClient
    /\ resolvedTargetBranchName' = <<>>
    /\ sourceBranchDoesNotExist' = FALSE
    /\ refUpdate' = NoRefUpdate
    /\ directoryContents' = <<>>
    /\ changes' = <<>>
    /\ push' = NoPush
    /\ outputs' = NoOutputs
    /\ error' = NoError
    /\ calls' = <<>>
    /\ refUpdatesSent' = <<>>
    /\ pushesSent' = <<>>
    /\ trace' = NoTrace
    /\ UNCHANGED <<remoteVars, invocation>>

\* await credentialProvider.getCredentials, the credentials check, the auth
\* handler and new WebApi.
GetCredentials ==
    /\ pc = "getCredentials"
    /\ \E credentials \in CredentialResults :
           IF CredentialsMissing(credentials, ctx.input.token)
           THEN /\ Throw("InputError", "No credentials provided for Azure DevOps")
                /\ UNCHANGED client
           ELSE /\ client' = [constructed |-> TRUE,
                              auth |-> AuthHandler(credentials, ctx.input.token),
                              gitApi |-> FALSE]
                /\ pc' = "getGitApi"
                /\ UNCHANGED error
    /\ UNCHANGED <<remoteVars, localVars, logVars, invocation, ctx, outputs>>

\* await webApi.getGitApi, then the dry-run branch.
GetGitApi ==
    /\ pc = "getGitApi"
    /\ Called("getGitApi")
    /\ \E ok \in BOOLEAN :
           IF ~ok THEN RemoteFailure /\ UNCHANGED <<client, outputs>>
           ELSE /\ client' = [client EXCEPT !.gitApi = TRUE]
                /\ IF ctx.isDryRun
                   THEN /\ outputs' = DryRunOutputs(ctx.input)
                        /\ pc' = "done"
                   ELSE /\ pc' = "getRepository"
                        /\ UNCHANGED outputs
                /\ UNCHANGED error
    /\ UNCHANGED <<remoteVars, localVars, refUpdatesSent, pushesSent, trace,
                   invocation, ctx>>

\* await gitApi.getRepository, then the target branch's resolution.
GetRepository ==
    /\ pc = "getRepository"
    /\ Called("getRepository")
    /\ \E ok \in BOOLEAN :
           IF ~ok THEN
               /\ RemoteFailure
               /\ UNCHANGED <<resolvedTargetBranchName, sourceBranchDoesNotExist>>
           ELSE IF ~repository.exists THEN
               /\ Throw("Error", "Repository not found")
               /\ UNCHANGED <<resolvedTargetBranchName, sourceBranchDoesNotExist>>
           ELSE LET target == ResolveTargetBranch(ctx.input.targetBranchName, repository)
                IN  IF ~target.ok THEN
                        /\ Throw("Error", "No target branch specified, no default branch")
                        /\ UNCHANGED <<resolvedTargetBranchName, sourceBranchDoesNotExist>>
                    ELSE
                        /\ resolvedTargetBranchName' = target.name
                        /\ sourceBranchDoesNotExist' = ctx.input.createSourceBranch
                        /\ pc' = IF ctx.input.createSourceBranch
                                 THEN "checkSourceBranch" ELSE "serialize"
                        /\ UNCHANGED error
    /\ UNCHANGED <<remoteVars, refUpdate, directoryContents, changes, push,
                   refUpdatesSent, pushesSent, trace, invocation, ctx, client, outputs>>

\* try { await gitApi.getBranch(source) }: found, not found, or the catch.
CheckSourceBranch ==
    /\ pc = "checkSourceBranch"
    /\ Called("getBranch")
    /\ \E branch \in GetBranchResponses(ctx.input.sourceBranchName) :
           /\ trace' = [trace EXCEPT
                  !.probe = branch.kind,
                  !.sourceExisted = BranchCommit(ctx.input.sourceBranchName) # ZeroObjectId]
           /\ IF branch.kind = "throw" THEN
                  /\ pc' = "fetchBaseCommit"
                  /\ UNCHANGED sourceBranchDoesNotExist
              ELSE IF branch.kind = "branch" THEN
                  /\ sourceBranchDoesNotExist' = FALSE
                  /\ pc' = "serialize"
              ELSE
                  /\ pc' = "serialize"
                  /\ UNCHANGED sourceBranchDoesNotExist
    /\ UNCHANGED <<remoteVars, resolvedTargetBranchName, refUpdate, directoryContents,
                   changes, push, refUpdatesSent, pushesSent, invocation, ctx, client,
                   outputs, error>>

\* In the catch: await getLatestCommit(resolvedTargetBranchName), and the ref
\* update built from it.
FetchBaseCommit ==
    /\ pc = "fetchBaseCommit"
    /\ Called("getBranch")
    /\ \E branchRef \in GetBranchResponses(resolvedTargetBranchName) :
           IF branchRef.kind = "throw" THEN
               RemoteFailure /\ UNCHANGED <<refUpdate, trace>>
           ELSE IF BranchRefMissing(branchRef) THEN
               Throw("Error", "Branch not found") /\ UNCHANGED <<refUpdate, trace>>
           ELSE
               /\ refUpdate' = NewBranchRefUpdate(ctx.input.sourceBranchName,
                                                  branchRef.commitId)
               /\ trace' = [trace EXCEPT
                      !.baseFetched = TRUE,
                      !.atBaseFetch = branches]
               /\ pc' = "updateRefs"
               /\ UNCHANGED error
    /\ UNCHANGED <<remoteVars, resolvedTargetBranchName, sourceBranchDoesNotExist,
                   directoryContents, changes, push, refUpdatesSent, pushesSent,
                   invocation, ctx, client, outputs>>

\* await gitApi.updateRefs([refUpdate]); its result is not looked at.
UpdateRefs ==
    /\ pc = "updateRefs"
    /\ Called("updateRefs")
    /\ refUpdatesSent' = Append(refUpdatesSent, <<refUpdate>>)
    /\ \E ok \in BOOLEAN :
           IF ~ok THEN RemoteFailure /\ UNCHANGED <<branches, trace>>
           ELSE /\ branches' = ApplyRefUpdate(refUpdate, refUpdate.newObjectId)
                /\ trace' = [trace EXCEPT !.created = RefUpdateAccepted(refUpdate)]
                /\ pc' = "serialize"
                /\ UNCHANGED error
    /\ UNCHANGED <<repository, commitCount, pullRequests, localVars, pushesSent,
                   invocation, ctx, client, outputs>>

\* await serializeDirectoryContents(fileRoot), then generateGitChanges.
SerializeDirectory ==
    /\ pc = "serialize"
    /\ \E listing \in DirectoryListings :
           /\ directoryContents' = listing
           /\ changes' = GenerateGitChanges(
                  listing, FileRoot(WorkspacePath, ctx.input.sourcePath),
                  ctx.input.targetPath)
    /\ pc' = "fetchPushBase"
    /\ UNCHANGED <<remoteVars, resolvedTargetBranchName, sourceBranchDoesNotExist,
                   refUpdate, push, logVars, invocation, ctx, client, outputs, error>>

\* await getLatestCommit(target or source), the push built from it, and the
\* check that there is something to push.
FetchPushBase ==
    /\ pc = "fetchPushBase"
    /\ Called("getBranch")
    /\ LET base == PushBaseBranch(sourceBranchDoesNotExist, resolvedTargetBranchName,
                                  ctx.input.sourceBranchName)
       IN  \E branchRef \in GetBranchResponses(base) :
               /\ trace' = [trace EXCEPT
                      !.pushFetched = TRUE,
                      !.atPushFetch = branches]
               /\ IF branchRef.kind = "throw" THEN
                      RemoteFailure /\ UNCHANGED push
                  ELSE IF BranchRefMissing(branchRef) THEN
                      Throw("Error", "Branch not found") /\ UNCHANGED push
                  ELSE
                      /\ push' = BuildPush(ctx.input.sourceBranchName, branchRef.commitId,
                                           ctx.input.commitMessage, directoryContents,
                                           changes)
                      /\ IF NoChanges(changes)
                         THEN Throw("Error", "No changes to push")
                         ELSE pc' = "createPush" /\ UNCHANGED error
    /\ UNCHANGED <<remoteVars, resolvedTargetBranchName, sourceBranchDoesNotExist,
                   refUpdate, directoryContents, changes, refUpdatesSent, pushesSent,
                   invocation, ctx, client, outputs>>

\* await gitApi.createPush(push): the remote takes the commit when the ref is
\* where the push says it is, and refuses the push otherwise.
CreatePush ==
    /\ pc = "createPush"
    /\ Called("createPush")
    /\ pushesSent' = Append(pushesSent, push)
    /\ \E ok \in BOOLEAN :
           IF ok /\ RefUpdateAccepted(push.refUpdates[1])
                 /\ push.refUpdates[1].oldObjectId # ZeroObjectId
           THEN /\ branches' = ApplyRefUpdate(push.refUpdates[1], commitCount + 1)
                /\ commitCount' = commitCount + 1
                /\ pc' = "getPullRequests"
                /\ UNCHANGED error
           ELSE RemoteFailure /\ UNCHANGED <<branches, commitCount>>
    /\ UNCHANGED <<repository, pullRequests, localVars, refUpdatesSent, trace,
                   invocation, ctx, client, outputs>>

\* await gitApi.getPullRequests(criteria), and the reuse of the first match.
GetPullRequests ==
    /\ pc = "getPullRequests"
    /\ Called("getPullRequests")
    /\ \E ok \in BOOLEAN :
           IF ~ok THEN RemoteFailure /\ UNCHANGED <<outputs, trace>>
           ELSE LET existingPullRequests ==
                        SearchPullRequests(SearchCriteria(ctx.input.sourceBranchName,
                                                          resolvedTargetBranchName))
                IN  /\ trace' = [trace EXCEPT
                           !.searched = TRUE,
                           !.matches = ActivePullRequestIds(
                               ctx.input.sourceBranchName, resolvedTargetBranchName)]
                    /\ IF HasExisting(existingPullRequests) THEN
                           IF existingPullRequests[1].pullRequestId = 0 THEN
                               /\ Throw("Error", "Pull request created without an ID")
                               /\ UNCHANGED outputs
                           ELSE
                               /\ outputs' = PullRequestOutputs(
                                      ctx.input, existingPullRequests[1].pullRequestId)
                               /\ pc' = "done"
                               /\ UNCHANGED error
                       ELSE
                           /\ pc' = "createPullRequest"
                           /\ UNCHANGED <<outputs, error>>
    /\ UNCHANGED <<remoteVars, localVars, refUpdatesSent, pushesSent, invocation, ctx,
                   client>>

\* await gitApi.createPullRequest(pullRequest): the remote numbers the new
\* pull request, and the handler reports it.
CreatePullRequest ==
    /\ pc = "createPullRequest"
    /\ Called("createPullRequest")
    /\ \E ok \in BOOLEAN :
           IF ~ok THEN RemoteFailure /\ UNCHANGED <<pullRequests, outputs>>
           ELSE LET pullRequest == NewPullRequest(ctx.input, resolvedTargetBranchName)
                    createdPullRequest ==
                        [pullRequestId |-> Len(pullRequests) + 1,
                         sourceRefName |-> pullRequest.sourceRefName,
                         targetRefName |-> pullRequest.targetRefName,
                         status |-> "active",
                         labels |-> pullRequest.labels,
                         createdBy |-> invocation]
                IN  /\ pullRequests' = Append(pullRequests, createdPullRequest)
                    /\ IF createdPullRequest.pullRequestId = 0 THEN
                           /\ Throw("Error", "Pull request created without an ID")
                           /\ UNCHANGED outputs
                       ELSE
                           /\ outputs' = PullRequestOutputs(
                                  ctx.input, createdPullRequest.pullRequestId)
                           /\ pc' = "done"
                           /\ UNCHANGED error
    /\ UNCHANGED <<repository, branches, commitCount, localVars, refUpdatesSent,
                   pushesSent, trace, invocation, ctx, client>>

\* Someone else pushes a commit to a branch of the repository.
RemoteCommit ==
    /\ commitCount < MaxCommits
    /\ \E b \in DOMAIN branches :
           /\ branches[b] # ZeroObjectId
           /\ branches' = [branches EXCEPT ![b] = commitCount + 1]
    /\ commitCount' = commitCount + 1
    /\ UNCHANGED <<repository, pullRequests, pc, invocation, ctx, client, localVars,
                   outputs, error, logVars>>

\* Someone completes or abandons an active pull request.
ClosePullRequest ==
    /\ \E i \in DOMAIN pullRequests :
           /\ pullRequests[i].status = "active"
           /\ pullRequests' = [pullRequests EXCEPT ![i].status = "abandoned"]
    /\ UNCHANGED <<repository, branches, commitCount, pc, invocation, ctx, client,
                   localVars, outputs, error, logVars>>

\* ----------------------------------------------------------- specification

ExistingPullRequest(id, target, status) ==
    [pullRequestId |-> id,
     sourceRefName |-> RefsHeads(Feature),
     targetRefName |-> RefsHeads(target),
     status |-> status,
     labels |-> <<>>,
     createdBy |-> 0]

Init ==
    /\ repository \in
           {[exists |-> FALSE, id |-> "", defaultBranch |-> <<>>],
            [exists |-> TRUE, id |-> "repo-id", defaultBranch |-> <<>>],
            [exists |-> TRUE, id |-> "repo-id", defaultBranch |-> RefsHeads(Main)]}
    /\ branches \in {[b \in {Main, Dev} |-> IF b = Main THEN 1 ELSE 2],
                     [b \in {Main, Dev, Feature} |-> IF b = Dev THEN 2 ELSE 1]}
    /\ commitCount = 2
    /\ pullRequests \in {<<>>,
                         <<ExistingPullRequest(1, Main, "abandoned"),
                           ExistingPullRequest(2, Dev, "active")>>}
    /\ pc = "idle"
    /\ invocation = 0
    /\ ctx = NoContext
    /\ client = NoClient
    /\ resolvedTargetBranchName = <<>>
    /\ sourceBranchDoesNotExist = FALSE
    /\ refUpdate = NoRefUpdate
    /\ directoryContents = <<>>
    /\ changes = <<>>
    /\ push = NoPush
    /\ outputs = NoOutputs
    /\ error = NoError
    /\ calls = <<>>
    /\ refUpdatesSent = <<>>
    /\ pushesSent = <<>>
    /\ trace = NoTrace

Next ==
    \/ Invoke
    \/ GetCredentials
    \/ GetGitApi
    \/ GetRepository
    \/ CheckSourceBranch
    \/ FetchBaseCommit
    \/ UpdateRefs
    \/ SerializeDirectory
    \/ FetchPushBase
    \/ CreatePush
    \/ GetPullRequests
    \/ CreatePullRequest
    \/ Return
    \/ RemoteCommit
    \/ ClosePullRequest

Spec == Init /\ [][Next]_vars

\* ------------------------------------- generateGitChanges as a pure function

ChangePaths ==
    {[abs |-> FALSE, segs |-> <<"a.txt">>],
     [abs |-> FALSE, segs |-> <<"sub", "e.txt">>],
     [abs |-> TRUE, segs |-> <<"ws", "src", "b.md">>],
     [abs |-> TRUE, segs |-> <<"ws", "c">>]}

ChangeContents == {<<>>, <<77>>, <<0, 255>>, <<77, 97, 110>>, <<255, 254, 253, 252>>}

ChangeEntries == [path : ChangePaths, content : ChangeContents]

ChangeListings == UNION {[1..n -> ChangeEntries] : n \in 0..MaxEntries}

\* A call of generateGitChanges(directoryContents, fileRoot, targetPath) on
\* its own: the arguments are drawn here, the call is GenerateChanges.
InitChanges ==
    /\ repository = [exists |-> FALSE, id |-> "", defaultBranch |-> <<>>]
    /\ branches = NoBranches
    /\ commitCount = 0
    /\ pullRequests = <<>>
    /\ pc = "generate"
    /\ invocation = 0
    /\ \E sourcePath \in {<<>>, <<"src">>}, targetPath \in {<<>>, <<"docs">>} :
           ctx = [input |-> [NoContext.input EXCEPT
                                 !.sourcePath = sourcePath, !.targetPath = targetPath],
                  isDryRun |-> FALSE]
    /\ client = NoClient
    /\ resolvedTargetBranchName = <<>>
    /\ sourceBranchDoesNotExist = FALSE
    /\ refUpdate = NoRefUpdate
    /\ directoryContents \in ChangeListings
    /\ changes = <<>>
    /\ push = NoPush
    /\ outputs = NoOutputs
    /\ error = NoError
    /\ calls = <<>>
    /\ refUpdatesSent = <<>>
    /\ pushesSent = <<>>
    /\ trace = NoTrace

GenerateChanges ==
    /\ pc = "generate"
    /\ changes' = GenerateGitChanges(
           directoryContents, FileRoot(WorkspacePath, ctx.input.sourcePath),
           ctx.input.targetPath)
    /\ pc' = "generated"
    /\ UNCHANGED <<remoteVars, resolvedTargetBranchName, sourceBranchDoesNotExist,
                   refUpdate, directoryContents, push, logVars, invocation, ctx, client,
                   outputs, error>>

NextChanges == GenerateChanges

SpecChanges == InitChanges /\ [][NextChanges]_vars

\* ------------------------------------------------------------------ claims

InCalls(op) == \E i \in DOMAIN calls : calls[i] = op

Running == pc # "idle"
Finished == Running /\ pc \in {"done", "failed"}

\* C1: in a dry run the handler constructs no client, obtains no Git API
\* client and calls no remote operation.
C1_DryRunTouchesNoClient ==
    (Running /\ ctx.isDryRun) =>
        /\ ~client.constructed
        /\ ~client.gitApi
        /\ calls = <<>>

\* C2: every dry run, whatever the credentials, completes without error with
\* pullRequestId = 123 and the mocked URL of its organization, project and
\* repo as its outputs.
C2_DryRunAlwaysSucceeds ==
    (Finished /\ ctx.isDryRun) =>
        /\ pc = "done"
        /\ error = NoError
        /\ outputs.set
        /\ outputs.pullRequestId = 123
        /\ outputs.pullRequestUrl =
               <<"h","t","t","p","s",":","/","/","m","o","c","k","e","d","-","u","r","l","/">>
               \o ctx.input.organization \o <<"/">> \o ctx.input.project \o <<"/">>
               \o ctx.input.repo
               \o <<"/","p","u","l","l","r","e","q","u","e","s","t","/","1","2","3">>

\* C3: when the remote holds an active pull request between the source and
\* the resolved target ref at the time the handler searches, the invocation
\* does not call createPullRequest and, completing, reports that pull
\* request's id; otherwise a completed invocation reports the pull request it
\* created.  The remote never holds two active pull requests between the
\* same two refs.
C3_ReusesActivePullRequest ==
    /\ (Running /\ trace.searched /\ trace.matches # <<>>) =>
           /\ ~InCalls("createPullRequest")
           /\ pc = "done" => (outputs.set /\ outputs.pullRequestId = trace.matches[1])
    /\ (Running /\ pc = "done" /\ ~ctx.isDryRun /\ trace.matches = <<>>) =>
           \E i \in DOMAIN pullRequests :
               /\ pullRequests[i].createdBy = invocation
               /\ pullRequests[i].pullRequestId = outputs.pullRequestId
    /\ \A i, j \in DOMAIN pullRequests :
           (/\ i < j
            /\ pullRequests[i].status = "active"
            /\ pullRequests[j].status = "active"
            /\ pullRequests[i].sourceRefName = pullRequests[j].sourceRefName)
           => pullRequests[i].targetRefName # pullRequests[j].targetRefName

\* C3's case: a second invocation reports the pull request the first created.
C3_Witness ==
    /\ invocation = 2
    /\ pc = "done"
    /\ trace.matches # <<>>
    /\ ~InCalls("createPullRequest")
    /\ \E i \in DOMAIN pullRequests :
           /\ pullRequests[i].createdBy = 1
           /\ pullRequests[i].pullRequestId = outputs.pullRequestId

SourceRef == <<"refs", "heads", "feature">>

\* The target branch an invocation is about: the one given, else main.
ExpectedTarget ==
    IF ctx.input.targetBranchName # <<>> THEN ctx.input.targetBranchName ELSE <<"main">>

CommitAt(snapshot, name) ==
    IF name \in DOMAIN snapshot THEN snapshot[name] ELSE 0

\* C4 as stated: with createSourceBranch, a source branch that exists on the
\* remote means no updateRefs call, and one that does not means, for an
\* invocation that completes, exactly one updateRefs call with one ref update
\* (zero old id, the target's latest commit as the new id); without
\* createSourceBranch there is no updateRefs call.
C4_AsStated ==
    Running =>
        /\ ~ctx.input.createSourceBranch => refUpdatesSent = <<>>
        /\ (ctx.input.createSourceBranch /\ trace.probe # "none" /\ trace.sourceExisted)
               => refUpdatesSent = <<>>
        /\ (ctx.input.createSourceBranch /\ trace.probe # "none" /\ ~trace.sourceExisted
            /\ pc = "done")
               => /\ Len(refUpdatesSent) = 1
                  /\ refUpdatesSent[1] =
                         <<[name |-> SourceRef, oldObjectId |-> 0,
                            newObjectId |-> CommitAt(trace.atBaseFetch, ExpectedTarget)]>>

\* C4, amended: what decides is the answer of the lookup, not the remote.  A
\* lookup that answers (with the branch or with nothing) or is never made
\* means no updateRefs call; a lookup that fails means at most one call, none
\* before the target's latest commit is fetched, and exactly one, with the
\* zero old id and that commit as the new id, once the handler is past the
\* creation.
C4_UpdateRefsFollowsLookup ==
    Running =>
        /\ ~ctx.input.createSourceBranch => (trace.probe = "none" /\ refUpdatesSent = <<>>)
        /\ trace.probe \in {"none", "branch", "undefined"} => refUpdatesSent = <<>>
        /\ trace.probe = "throw" =>
               /\ ctx.input.createSourceBranch
               /\ Len(refUpdatesSent) <= 1
               /\ ~trace.baseFetched => refUpdatesSent = <<>>
               /\ (trace.baseFetched /\ pc # "updateRefs") =>
                      /\ Len(refUpdatesSent) = 1
                      /\ refUpdatesSent[1] =
                             <<[name |-> SourceRef, oldObjectId |-> 0,
                                newObjectId |->
                                    CommitAt(trace.atBaseFetch, ExpectedTarget)]>>

\* C4's case: the branch was not there, the lookup failed, and the one ref
\* update created it.
C4_Witness ==
    /\ pc = "done"
    /\ trace.probe = "throw"
    /\ ~trace.sourceExisted
    /\ trace.created
    /\ Len(refUpdatesSent) = 1

ChangesBuilt == Running /\ (pc = "fetchPushBase" \/ trace.pushFetched)

\* C5: with an empty change list the invocation ends in a generic error;
\* createPush, getPullRequests and createPullRequest are not called and no
\* output is emitted.
C5_EmptyChangesAbort ==
    (ChangesBuilt /\ changes = <<>>) =>
        /\ pc \in {"fetchPushBase", "failed"}
        /\ pc = "failed" => error.kind = "Error"
        /\ ~InCalls("createPush")
        /\ ~InCalls("getPullRequests")
        /\ ~InCalls("createPullRequest")
        /\ pushesSent = <<>>
        /\ ~outputs.set

\* C5's case: a directory with files, all of them empty, ends in "no changes".
C5_Witness ==
    /\ pc = "failed"
    /\ directoryContents # <<>>
    /\ changes = <<>>
    /\ error = [kind |-> "Error", message |-> "No changes to push"]

HasContent(file) == file.content # <<>>

B64Index(c) == (CHOOSE i \in 1..64 : Base64Alphabet[i] = c) - 1

RECURSIVE Base64Decode(_)
\* The inverse reading of a base64 text, used to state what a change carries.
Base64Decode(text) ==
    IF Len(text) = 0 THEN <<>>
    ELSE LET a == B64Index(text[1])
             b == B64Index(text[2])
         IN  IF text[3] = "=" THEN <<a * 4 + b \div 16>>
             ELSE LET c == B64Index(text[3])
                  IN  IF text[4] = "=" THEN
                          <<a * 4 + b \div 16, (b % 16) * 16 + c \div 4>>
                      ELSE LET d == B64Index(text[4])
                           IN  <<a * 4 + b \div 16,
                                 (b % 16) * 16 + c \div 4,
                                 (c % 4) * 64 + d>>
                               \o Base64Decode(SubSeq(text, 5, Len(text)))

\* C6: generateGitChanges emits at most as many changes as there are
\* entries, each of kind "add" with non-empty base64 content, and the
\* changes are the entries with non-empty content, in their order.
C6_ChangesAreTheNonEmptyEntries ==
    pc = "generated" =>
        LET kept == SelectSeq(directoryContents, HasContent)
        IN  /\ Len(changes) <= Len(directoryContents)
            /\ Len(changes) = Len(kept)
            /\ \A i \in DOMAIN changes :
                   /\ changes[i].changeType = "add"
                   /\ changes[i].newContent.content # <<>>
                   /\ changes[i].newContent.contentType = "base64encoded"
                   /\ Len(changes[i].newContent.content) % 4 = 0
                   /\ Base64Decode(changes[i].newContent.content) = kept[i].content
                   /\ Basename(changes[i].item.path) = Basename(kept[i].path.segs)

\* C6's case: an empty entry is dropped and a later entry is kept.
C6_Witness ==
    /\ pc = "generated"
    /\ Len(directoryContents) = 2
    /\ directoryContents[1].content = <<>>
    /\ Len(changes) = 1
    /\ changes[1].newContent.content = <<"T", "Q", "=", "=">>

\* The cases of the URL function's tests.
UrlTestCases ==
    <<[baseUrl |-> <<"h","t","t","p","s",":","/","/","d","e","v",".","a","z","u","r","e",".","c","o","m","/","m","y","-","o","r","g">>,
       project |-> <<"m","y"," ","p","r","o","j","e","c","t">>,
       repo |-> <<"m","y"," ","r","e","p","o">>,
       id |-> 456,
       url |-> <<"h","t","t","p","s",":","/","/","d","e","v",".","a","z","u","r","e",".","c","o","m","/","m","y","-","o","r","g","/","m","y","%","2","0","p","r","o","j","e","c","t","/","_","g","i","t","/","m","y","%","2","0","r","e","p","o","/","p","u","l","l","r","e","q","u","e","s","t","/","4","5","6">>],
      [baseUrl |-> <<"h","t","t","p","s",":","/","/","d","e","v",".","a","z","u","r","e",".","c","o","m","/","m","y","-","o","r","g">>,
       project |-> <<"p","r","o","j","e","c","t","-","w","i","t","h","-","d","a","s","h","e","s">>,
       repo |-> <<"r","e","p","o","_","w","i","t","h","_","u","n","d","e","r","s","c","o","r","e","s">>,
       id |-> 789,
       url |-> <<"h","t","t","p","s",":","/","/","d","e","v",".","a","z","u","r","e",".","c","o","m","/","m","y","-","o","r","g","/","p","r","o","j","e","c","t","-","w","i","t","h","-","d","a","s","h","e","s","/","_","g","i","t","/","r","e","p","o","_","w","i","t","h","_","u","n","d","e","r","s","c","o","r","e","s","/","p","u","l","l","r","e","q","u","e","s","t","/","7","8","9">>],
      [baseUrl |-> <<"h","t","t","p","s",":","/","/","m","y","c","o","m","p","a","n","y",".","v","i","s","u","a","l","s","t","u","d","i","o",".","c","o","m">>,
       project |-> <<"m","y","-","p","r","o","j","e","c","t">>,
       repo |-> <<"m","y","-","r","e","p","o">>,
       id |-> 1,
       url |-> <<"h","t","t","p","s",":","/","/","m","y","c","o","m","p","a","n","y",".","v","i","s","u","a","l","s","t","u","d","i","o",".","c","o","m","/","m","y","-","p","r","o","j","e","c","t","/","_","g","i","t","/","m","y","-","r","e","p","o","/","p","u","l","l","r","e","q","u","e","s","t","/","1">>],
      [baseUrl |-> <<"h","t","t","p","s",":","/","/","d","e","v",".","a","z","u","r","e",".","c","o","m","/","m","y","-","o","r","g">>,
       project |-> <<"m","y","-","p","r","o","j","e","c","t">>,
       repo |-> <<"m","y","-","r","e","p","o">>,
       id |-> 0,
       url |-> <<"h","t","t","p","s",":","/","/","d","e","v",".","a","z","u","r","e",".","c","o","m","/","m","y","-","o","r","g","/","m","y","-","p","r","o","j","e","c","t","/","_","g","i","t","/","m","y","-","r","e","p","o","/","p","u","l","l","r","e","q","u","e","s","t","/","0">>],
      [baseUrl |-> <<"h","t","t","p","s",":","/","/","d","e","v",".","a","z","u","r","e",".","c","o","m","/","m","y","-","o","r","g">>,
       project |-> <<"m","y","-","p","r","o","j","e","c","t">>,
       repo |-> <<"m","y","-","r","e","p","o">>,
       id |-> 999999,
       url |-> <<"h","t","t","p","s",":","/","/","d","e","v",".","a","z","u","r","e",".","c","o","m","/","m","y","-","o","r","g","/","m","y","-","p","r","o","j","e","c","t","/","_","g","i","t","/","m","y","-","r","e","p","o","/","p","u","l","l","r","e","q","u","e","s","t","/","9","9","9","9","9","9">>]>>

ExpectedSegment(name) ==
    CASE name = <<"a"," ","b">> -> <<"a","%","2","0","b">>
      [] name = <<"r","-","1">> -> <<"r","-","1">>

\* C7: the reported URL is <baseUrl>/<project>/_git/<repo>/pullrequest/<id>
\* with project and repo percent-encoded and the id that of the pullRequestId
\* output; the URL function gives the URLs its tests expect, id 0 and 999999
\* included (the same in every state, and looked at between invocations).
C7_PullRequestUrl ==
    /\ (Running /\ pc = "done" /\ ~ctx.isDryRun) =>
           /\ outputs.set
           /\ outputs.pullRequestUrl =
                  <<"h","t","t","p","s",":","/","/","d","e","v",".","a","z","u","r","e",
                    ".","c","o","m","/","m","y","%","2","0","o","/">>
                  \o ExpectedSegment(ctx.input.project)
                  \o <<"/","_","g","i","t","/">>
                  \o ExpectedSegment(ctx.input.repo)
                  \o <<"/","p","u","l","l","r","e","q","u","e","s","t","/">>
                  \o NumberToString(outputs.pullRequestId)
    /\ pc = "idle" => \A i \in DOMAIN UrlTestCases :
           GetAzureDevOpsPullRequestURL(UrlTestCases[i].baseUrl, UrlTestCases[i].project,
                                        UrlTestCases[i].repo, UrlTestCases[i].id)
               = UrlTestCases[i].url

\* C7's case: a pull request of a project with a space in its name.
C7_Witness ==
    /\ pc = "done"
    /\ ~ctx.isDryRun
    /\ ctx.input.project = <<"a"," ","b">>
    /\ outputs.pullRequestId = 2

\* The source branch was created by this invocation or is about to be.
NewSourceBranch == ctx.input.createSourceBranch /\ trace.probe # "branch"

\* C8: every push carries one ref update, for refs/heads/<source>, whose old
\* object id is the target's latest commit when the source branch is new and
\* the source branch's own latest commit otherwise; in the second case a
\* missing source branch fails the invocation before any push.
C8_PushRefUpdate ==
    Running =>
        /\ \A i \in DOMAIN pushesSent :
               /\ Len(pushesSent[i].refUpdates) = 1
               /\ pushesSent[i].refUpdates[1].name = SourceRef
               /\ pushesSent[i].refUpdates[1].oldObjectId # 0
               /\ pushesSent[i].refUpdates[1].oldObjectId =
                      IF NewSourceBranch
                      THEN CommitAt(trace.atPushFetch, ExpectedTarget)
                      ELSE CommitAt(trace.atPushFetch, <<"feature">>)
        /\ (trace.pushFetched /\ ~NewSourceBranch
            /\ CommitAt(trace.atPushFetch, <<"feature">>) = 0)
               => (pc = "failed" /\ pushesSent = <<>>)

\* C8's case: a push onto an existing source branch whose commit differs from
\* the target's.
C8_Witness ==
    /\ Len(pushesSent) = 1
    /\ ~NewSourceBranch
    /\ pushesSent[1].refUpdates[1].oldObjectId = CommitAt(trace.atPushFetch, <<"feature">>)
    /\ CommitAt(trace.atPushFetch, <<"feature">>) # CommitAt(trace.atPushFetch, ExpectedTarget)

RECURSIVE ChangedNames(_)
ChangedNames(fileChanges) ==
    IF fileChanges = <<>> THEN <<>>
    ELSE <<Basename(Head(fileChanges).item.path)>> \o ChangedNames(Tail(fileChanges))

\* C9: every push carries one commit whose changes are the change list and
\* whose comment is the given commit message or, without one, the generated
\* message naming exactly the files of the change list.
C9_CommitNamesChangedFiles ==
    Running =>
        \A i \in DOMAIN pushesSent :
            /\ Len(pushesSent[i].commits) = 1
            /\ pushesSent[i].commits[1].changes = changes
            /\ pushesSent[i].commits[1].comment =
                   IF ctx.input.commitMessage # ""
                   THEN [text |-> ctx.input.commitMessage, files |-> <<>>]
                   ELSE [text |-> "Automated commit from Backstage scaffolder. Added files: ",
                         files |-> ChangedNames(pushesSent[i].commits[1].changes)]

\* C10: when the invocation created the source branch at commit C, the old
\* object id of its push is C.
C10_PushBaseIsCreationCommit ==
    (Running /\ trace.created) =>
        \A i \in DOMAIN pushesSent :
            pushesSent[i].refUpdates[1].oldObjectId = refUpdatesSent[1][1].newObjectId

====
